---- MODULE Spec2Model ----
(***************************************************************************)
(* The Calendar component of fancy-ui                                      *)
(* (src/src/features/calendar/components/index.tsx) and the validation of  *)
(* its Input component (src/src/features/input/components/index.tsx),     *)
(* its Button (src/src/features/button/components/index.tsx) and its Modal *)
(* (src/src/features/modal/components/index.tsx) as state machines.        *)
(*                                                                         *)
(* A JavaScript Date is modelled by its time value, an integer number of   *)
(* ticks; TicksPerDay ticks make one day, day 0 is 1 January 1970, and the *)
(* local time zone is taken to have no daylight-saving shifts.  The Date   *)
(* operations the component calls (the constructor with its overflow       *)
(* normalisation, getFullYear, getMonth, getDate, getDay, setMonth) are    *)
(* computed the way ECMAScript defines them.                               *)
(***************************************************************************)
EXTENDS Integers, Sequences, FiniteSets, TLC

VARIABLES
  enableRange,      \* prop enableRange
  disabled,         \* prop disabled
  showOutsideDays,  \* prop showOutsideDays
  fixedWeeks,       \* prop fixedWeeks
  showTrigger,      \* prop showTrigger
  showWeekNumbers,  \* prop showWeekNumbers
  disabledDays,     \* prop disabledDays (a set of time values)
  minDate,          \* prop minDate (Null or a date value)
  maxDate,          \* prop maxDate (Null or a date value)
  selectedDate,     \* useState selectedDate
  currentMonth,     \* useState currentMonth (a time value)
  isOpen,           \* useState isOpen
  rangeStart,       \* useState rangeStart (Null or a date value)
  event,            \* the last user or host event delivered to the component
  calls,            \* the callbacks that event invoked, in order
  firstClick,       \* history: the click that opened the range now pending
  required,         \* Input prop required
  minLength,        \* Input prop minLength (0: absent or zero)
  maxLength,        \* Input prop maxLength (0: absent or zero)
  validationType,   \* Input prop validationType (Undefined or a pattern name)
  customValidation, \* Input prop customValidation (Undefined or given)
  error,            \* Input prop error (Undefined or a message)
  isLoading,        \* Input prop isLoading
  internalError,    \* Input useState internalError (Undefined or a message)
  internalValue,    \* Input useState internalValue
  isFocused,        \* Input useState isFocused
  inputEvent,       \* the last event delivered to the input element
  buttonIsLoading,  \* Button prop isLoading
  buttonRest,       \* Button: the other props passed, spread onto <button>
  buttonEvent,      \* the last event delivered to the button
  onClickCalls,     \* the number of times that event invoked onClick
  modalControlled,  \* Modal: the host passes isOpen and keeps it in its state
  modalOpen,        \* Modal: the open state of Dialog.Root
  closeOnOutsideClick, \* Modal prop closeOnOutsideClick
  showCloseButton,  \* Modal prop showCloseButton
  modalTrigger,     \* Modal: a trigger element is passed
  modalEvent,       \* the last event delivered to the modal
  onCloseCalls      \* the number of times that event invoked onClose

props == <<disabled, showOutsideDays, fixedWeeks, showTrigger,
           showWeekNumbers, disabledDays, minDate, maxDate>>
calendarVars ==
  <<enableRange, disabled, showOutsideDays, fixedWeeks, showTrigger,
    showWeekNumbers, disabledDays, minDate, maxDate, selectedDate,
    currentMonth, isOpen, rangeStart, event, calls, firstClick>>
inputProps == <<required, minLength, maxLength, validationType,
                customValidation, error, isLoading>>
inputVars == <<required, minLength, maxLength, validationType,
               customValidation, error, isLoading, internalError,
               internalValue, isFocused, inputEvent>>
buttonVars == <<buttonIsLoading, buttonRest, buttonEvent, onClickCalls>>
modalProps == <<modalControlled, closeOnOutsideClick, showCloseButton,
                modalTrigger>>
modalVars == <<modalControlled, modalOpen, closeOnOutsideClick,
               showCloseButton, modalTrigger, modalEvent, onCloseCalls>>
vars == <<calendarVars, inputVars, buttonVars, modalVars>>

----------------------------------------------------------------------------
(* Bounds of the model *)

\* ticks per day: tick 0 is local midnight
TicksPerDay == 2
\* the interaction model navigates within BaseYear's January .. January + NavSpan
NavSpan == 1
\* the month model covers the years BaseYear - YearSpan .. BaseYear + YearSpan
YearSpan == 1
\* the year the component's tests use for their dates
BaseYear == 2024

----------------------------------------------------------------------------
(* JavaScript Date *)

DaysInYear(y) ==
  IF y % 4 # 0 THEN 365
  ELSE IF y % 100 # 0 THEN 366
  ELSE IF y % 400 # 0 THEN 365
  ELSE 366

\* day number of 1 January of year y
DayFromYear(y) ==
  365 * (y - 1970) + ((y - 1969) \div 4) - ((y - 1901) \div 100)
    + ((y - 1601) \div 400)

\* the year holding day number d, given a year a at most one away from it
YearNear(d, a) ==
  IF DayFromYear(a) > d THEN a - 1
  ELSE IF DayFromYear(a + 1) <= d THEN a + 1
  ELSE a

\* the year holding day number d
YearFromDay(d) == YearNear(d, 1970 + ((d * 400) \div 146097))

InLeapYear(y) == IF DaysInYear(y) = 366 THEN 1 ELSE 0

\* day number, within its year, of the first day of month m (0..11), m = 12
\* being the first day of the next year
MonthStart(m, leap) ==
  CASE m = 0 -> 0
    [] m = 1 -> 31
    [] m = 2 -> 59 + leap
    [] m = 3 -> 90 + leap
    [] m = 4 -> 120 + leap
    [] m = 5 -> 151 + leap
    [] m = 6 -> 181 + leap
    [] m = 7 -> 212 + leap
    [] m = 8 -> 243 + leap
    [] m = 9 -> 273 + leap
    [] m = 10 -> 304 + leap
    [] m = 11 -> 334 + leap
    [] OTHER -> 365 + leap

\* the month (0..11) holding day dw (0..365) of a year
MonthFromDayWithinYear(dw, leap) ==
  IF dw < 31 THEN 0
  ELSE IF dw < 59 + leap THEN 1
  ELSE IF dw < 90 + leap THEN 2
  ELSE IF dw < 120 + leap THEN 3
  ELSE IF dw < 151 + leap THEN 4
  ELSE IF dw < 181 + leap THEN 5
  ELSE IF dw < 212 + leap THEN 6
  ELSE IF dw < 243 + leap THEN 7
  ELSE IF dw < 273 + leap THEN 8
  ELSE IF dw < 304 + leap THEN 9
  ELSE IF dw < 334 + leap THEN 10
  ELSE 11

Day(t) == t \div TicksPerDay
TimeWithinDay(t) == t % TicksPerDay

getFullYear(t) == YearFromDay(Day(t))

\* the month and the day of the month of day number d of year y
MonthInYear(d, y) == MonthFromDayWithinYear(d - DayFromYear(y), InLeapYear(y))
DateInMonth(d, y, m) == d - DayFromYear(y) - MonthStart(m, InLeapYear(y)) + 1
DateInYear(d, y) == DateInMonth(d, y, MonthInYear(d, y))

getMonth(t) == MonthInYear(Day(t), getFullYear(t))

getDate(t) == DateInYear(Day(t), getFullYear(t))

\* 1 January 1970 was a Thursday; 0 = Sunday
getDay(t) == (Day(t) + 4) % 7

\* ECMAScript MakeDay: month and day outside their ranges carry over
MakeDay(year, month, date) ==
  LET ym == year + (month \div 12)
      mn == month % 12
  IN  DayFromYear(ym) + MonthStart(mn, InLeapYear(ym)) + date - 1

\* new Date(year, month, date): local midnight
NewDate(year, month, date) == MakeDay(year, month, date) * TicksPerDay

\* date.setMonth(month): same year, day of month and time of day, then
\* normalised
setMonth(t, month) ==
  MakeDay(getFullYear(t), month, getDate(t)) * TicksPerDay + TimeWithinDay(t)

----------------------------------------------------------------------------
(* Values *)

Null == [kind |-> "null"]
DateV(t) == [kind |-> "date", t |-> t]
RangeV(from, to) == [kind |-> "range", from |-> from, to |-> to]

IsDate(v) == v.kind = "date"
IsRange(v) == v.kind = "range"

\* the time value of an Invalid Date, and of every Date computed from one
NaN == -1000000000
isNaN(t) == t = NaN

\* the number of elements of Array.from({ length: n })
ArrayLength(n) == IF isNaN(n) \/ n < 0 THEN 0 ELSE n

----------------------------------------------------------------------------
(* calendarData: the grid dimensions of the visible month *)

\* the year and month (0..11) on display
viewYear == IF isNaN(currentMonth) THEN NaN ELSE getFullYear(currentMonth)
viewMonth == IF isNaN(currentMonth) THEN NaN ELSE getMonth(currentMonth)

\* daysInMonth with day 0 taken of the visible month instead of the next one
daysInMonth_ThisMonth ==
  IF isNaN(currentMonth)
    THEN NaN
    ELSE getDate(NewDate(viewYear, viewMonth, 0))

daysInMonth ==
  IF isNaN(currentMonth)
    THEN NaN
    ELSE getDate(NewDate(viewYear, viewMonth + 1, 0))

firstDayOfMonth ==
  IF isNaN(currentMonth)
    THEN NaN
    ELSE getDay(NewDate(viewYear, viewMonth, 1))

totalCells_ExtraWeek ==
  IF fixedWeeks
    THEN 42
    ELSE firstDayOfMonth + daysInMonth
           + (7 - ((firstDayOfMonth + daysInMonth) % 7))

totalCells ==
  IF fixedWeeks
    THEN 42
    ELSE IF isNaN(currentMonth)
      THEN NaN
      ELSE firstDayOfMonth + daysInMonth
             + ((7 - ((firstDayOfMonth + daysInMonth) % 7)) % 7)

nextMonthDays_FromDayOne ==
  IF isNaN(currentMonth)
    THEN NaN
    ELSE totalCells - daysInMonth

nextMonthDays ==
  IF isNaN(currentMonth)
    THEN NaN
    ELSE totalCells - (firstDayOfMonth + daysInMonth)

\* Math.ceil(a / b) for a >= 0 and b > 0
CeilDiv(a, b) == (a + b - 1) \div b

\* getWeekNumber: pastDaysOfYear is a difference of time values divided by
\* the length of a day
getWeekNumber(date) ==
  IF isNaN(date)
    THEN NaN
    ELSE LET firstDayOfYear == NewDate(getFullYear(date), 0, 1)
         IN  CeilDiv((date - firstDayOfYear)
                       + (getDay(firstDayOfYear) + 1) * TicksPerDay,
                     7 * TicksPerDay)

\* the date whose week number is shown for row weekIndex (0, 1, ...)
weekDate(weekIndex) ==
  IF isNaN(currentMonth)
    THEN NaN
    ELSE NewDate(viewYear, viewMonth, weekIndex * 7 + 1)

\* the week numbers column: one number per row, top to bottom
WeekNumbers ==
  IF showWeekNumbers
    THEN [w \in 1..ArrayLength(IF isNaN(totalCells) THEN NaN
                               ELSE CeilDiv(totalCells, 7))
            |-> getWeekNumber(weekDate(w - 1))]
    ELSE <<>>

----------------------------------------------------------------------------
(* renderCalendarGrid: the buttons placed in the 7-column grid after the   *)
(* seven weekday headers, in document order                                 *)

\* isDisabled without the maxDate test
isDisabled_NoMaxDate(date) ==
  \/ \E d \in disabledDays : d = date
  \/ (minDate # Null /\ date < minDate.t)

isDisabled_InclusiveMin(date) ==
  \/ \E d \in disabledDays : d = date
  \/ (minDate # Null /\ date <= minDate.t)
  \/ (maxDate # Null /\ date > maxDate.t)

\* isDisabled of a current-month cell
isDisabled(date) ==
  \/ \E d \in disabledDays : d = date
  \/ (minDate # Null /\ date < minDate.t)
  \/ (maxDate # Null /\ date > maxDate.t)

\* the k-th filler button of the previous month: index i of Array.from is k - 1
PrevMonthCell(k) ==
  LET prevMonthDate == NewDate(viewYear, viewMonth, -(k - 1))
  IN  [kind |-> "prev", label |-> getDate(prevMonthDate),
       date |-> prevMonthDate, disabled |-> TRUE, hasOnClick |-> FALSE,
       isSelected |-> FALSE, isInRange |-> FALSE, isStart |-> FALSE,
       isEnd |-> FALSE]

\* isDateInRange, isDateRangeStart, isDateRangeEnd
isDateInRange(date) ==
  IF ~enableRange \/ selectedDate = Null \/ IsDate(selectedDate)
    THEN FALSE
    ELSE date >= selectedDate.from /\ date <= selectedDate.to

isDateRangeStart(date) ==
  IF ~enableRange \/ selectedDate = Null \/ IsDate(selectedDate)
    THEN FALSE
    ELSE date = selectedDate.from

isDateRangeEnd(date) ==
  IF ~enableRange \/ selectedDate = Null \/ IsDate(selectedDate)
    THEN FALSE
    ELSE date = selectedDate.to

\* isSelected of a current-month cell: it selects variant="primary"
isSelected(date) ==
  IF IsDate(selectedDate)
    THEN selectedDate.t = date
    ELSE isDateInRange(date)

\* the button of day k of the visible month
CurrentMonthCell(k) ==
  LET date == NewDate(viewYear, viewMonth, k)
  IN  [kind |-> "day", label |-> k, date |-> date,
       disabled |-> (isDisabled(date) \/ disabled), hasOnClick |-> TRUE,
       isSelected |-> isSelected(date), isInRange |-> isDateInRange(date),
       isStart |-> isDateRangeStart(date), isEnd |-> isDateRangeEnd(date)]

\* NextMonthCell that styles the filler as it would a day of the month
NextMonthCell_Marked(k) ==
  LET nextMonthDate == NewDate(viewYear, viewMonth + 1, k)
  IN  [kind |-> "next", label |-> getDate(nextMonthDate),
       date |-> nextMonthDate, disabled |-> TRUE, hasOnClick |-> FALSE,
       isSelected |-> isSelected(nextMonthDate),
       isInRange |-> isDateInRange(nextMonthDate),
       isStart |-> isDateRangeStart(nextMonthDate),
       isEnd |-> isDateRangeEnd(nextMonthDate)]

\* the k-th filler button of the next month: variant="outline", none of the
\* selection classes, disabled={true}, no onClick
NextMonthCell(k) ==
  LET nextMonthDate == NewDate(viewYear, viewMonth + 1, k)
  IN  [kind |-> "next", label |-> getDate(nextMonthDate),
       date |-> nextMonthDate, disabled |-> TRUE, hasOnClick |-> FALSE,
       isSelected |-> FALSE, isInRange |-> FALSE, isStart |-> FALSE,
       isEnd |-> FALSE]

PrevMonthCells ==
  IF showOutsideDays
    THEN [k \in 1..ArrayLength(firstDayOfMonth) |-> PrevMonthCell(k)]
    ELSE <<>>

CurrentMonthCells ==
  [k \in 1..ArrayLength(daysInMonth) |-> CurrentMonthCell(k)]

NextMonthCells ==
  IF showOutsideDays
    THEN [k \in 1..ArrayLength(nextMonthDays) |-> NextMonthCell(k)]
    ELSE <<>>

renderCalendarGrid == PrevMonthCells \o CurrentMonthCells \o NextMonthCells

\* the column (0..6) in which CSS grid auto-placement puts the k-th button of
\* the "grid grid-cols-7" container: the seven headers fill the first row
GridColumn(k) == (7 + k - 1) % 7

\* the calendar body is on screen: inline, or inside the open popover
CalendarVisible == ~showTrigger \/ isOpen

\* toLocaleDateString(locale, { year, month: "long", day }): the calendar day
\* of a Date, its time of day dropped
toLocaleDateString(t) ==
  [year |-> getFullYear(t), month |-> getMonth(t), day |-> getDate(t)]

Placeholder == [text |-> "placeholder"]

\* the text of the popover trigger
TriggerLabel ==
  IF /\ selectedDate # Null
     /\ ~isNaN(IF IsDate(selectedDate) THEN selectedDate.t
                ELSE selectedDate.from)
    THEN IF enableRange /\ ~IsDate(selectedDate)
           THEN [text |-> "range",
                 from |-> toLocaleDateString(selectedDate.from),
                 to |-> toLocaleDateString(selectedDate.to)]
           ELSE [text |-> "date",
                 date |-> toLocaleDateString(IF IsDate(selectedDate)
                                               THEN selectedDate.t
                                               ELSE selectedDate.from)]
    ELSE Placeholder

----------------------------------------------------------------------------
(* handleDateClick *)

\* the range a click from an idle tracker opens
StartRange(date) == RangeV(date, date)

\* CompleteRange without the ordering of the two dates
CompleteRange_Unordered(date, start) == RangeV(start, date)

\* the range a click completes, given the pending start
CompleteRange(date, start) ==
  RangeV(IF date < start THEN date ELSE start,
         IF date < start THEN start ELSE date)

\* NextSelection that opens a new range on every click
NextSelection_AlwaysStart(date) ==
  IF enableRange THEN StartRange(date) ELSE DateV(date)

\* the value handed to setSelectedDate and to onSelect
NextSelection(date) ==
  IF enableRange
    THEN IF rangeStart = Null
           THEN StartRange(date)
           ELSE CompleteRange(date, rangeStart.t)
    ELSE DateV(date)

\* NextRangeStart without setRangeStart(date) in the first branch
NextRangeStart_NeverPending(date) ==
  IF enableRange THEN Null ELSE rangeStart

\* the value of rangeStart after the click
NextRangeStart(date) ==
  IF enableRange
    THEN IF rangeStart = Null THEN DateV(date) ELSE Null
    ELSE rangeStart

\* ClickCalls with onDayClick invoked before onSelect
ClickCalls_DayClickFirst(date) ==
  << [cb |-> "onDayClick", arg |-> DateV(date)],
     [cb |-> "onSelect", arg |-> NextSelection(date)] >>

\* the callbacks of one click, in the order the handler invokes them
ClickCalls(date) ==
  << [cb |-> "onSelect", arg |-> NextSelection(date)],
     [cb |-> "onDayClick", arg |-> DateV(date)] >>

handleDateClick(date) ==
  IF disabled
    THEN /\ calls' = <<>>
         /\ UNCHANGED <<selectedDate, rangeStart>>
    ELSE /\ selectedDate' = NextSelection(date)
         /\ rangeStart' = NextRangeStart(date)
         /\ calls' = ClickCalls(date)

----------------------------------------------------------------------------
(* handleMonthChange *)

\* new Date(currentMonth) followed by setMonth(getMonth() + increment)
NewMonth(increment) ==
  IF isNaN(currentMonth)
    THEN NaN
    ELSE setMonth(currentMonth, getMonth(currentMonth) + increment)

handleMonthChange(increment) ==
  /\ currentMonth' = NewMonth(increment)
  /\ calls' = << [cb |-> "onMonthChange", arg |-> DateV(NewMonth(increment))] >>

----------------------------------------------------------------------------
(* Events *)

\* the days of a month the modelled user clicks on
ClickDays == {1, 15, 20}

\* A click on one button of the grid.  A disabled button dispatches no click
\* event, and the filler buttons carry no onClick.
ClickOn(cell) ==
  /\ event' = [kind |-> "cellClick", cell |-> cell.kind,
               date |-> cell.date, cellDisabled |-> cell.disabled]
  /\ IF cell.disabled \/ ~cell.hasOnClick
       THEN /\ calls' = <<>>
            /\ UNCHANGED <<selectedDate, rangeStart, firstClick>>
       ELSE /\ handleDateClick(cell.date)
            /\ firstClick' =
                 IF enableRange /\ rangeStart = Null /\ ~disabled
                   THEN DateV(cell.date)
                   ELSE Null
  /\ UNCHANGED <<enableRange, props, currentMonth, isOpen>>
  /\ UNCHANGED <<inputVars, buttonVars, modalVars>>

CellClick ==
  /\ CalendarVisible
  /\ \E k \in ClickDays :
       /\ k <= ArrayLength(daysInMonth)
       /\ ClickOn(CurrentMonthCell(k))

\* A click on a filler button, the first of the previous or of the next
\* month
FillerClick ==
  /\ CalendarVisible
  /\ showOutsideDays
  /\ \/ ArrayLength(firstDayOfMonth) >= 1 /\ ClickOn(PrevMonthCell(1))
     \/ ArrayLength(nextMonthDays) >= 1 /\ ClickOn(NextMonthCell(1))

\* A click on the "Previous month" (-1) or "Next month" (+1) button
NavClick(increment) ==
  /\ CalendarVisible
  /\ handleMonthChange(increment)
  /\ event' = [kind |-> "nav", inc |-> increment, from |-> currentMonth]
  /\ UNCHANGED <<enableRange, props, selectedDate, isOpen, rangeStart,
                 firstClick>>
  /\ UNCHANGED <<inputVars, buttonVars, modalVars>>

\* A click on the popover trigger (Popover.Root onOpenChange = setIsOpen)
TriggerClick ==
  /\ showTrigger
  /\ ~disabled
  /\ isOpen' = ~isOpen
  /\ event' = [kind |-> "trigger"]
  /\ calls' = <<>>
  /\ UNCHANGED <<enableRange, props, selectedDate, currentMonth, rangeStart,
                 firstClick>>
  /\ UNCHANGED <<inputVars, buttonVars, modalVars>>

\* SelectedMonth taken from the end of a range
SelectedMonth_RangeEnd(selected) ==
  IF IsDate(selected) THEN selected.t ELSE selected.to

\* the Date handed to setCurrentMonth: selected, or selected.from of a range
SelectedMonth(selected) ==
  IF IsDate(selected) THEN selected.t ELSE selected.from

\* The host re-renders with another selected prop: useEffect([selected])
SelectedPropChange(selected) ==
  /\ IF selected # Null
       THEN /\ selectedDate' = selected
            /\ currentMonth' = SelectedMonth(selected)
       ELSE UNCHANGED <<selectedDate, currentMonth>>
  /\ event' = [kind |-> "selectedProp", value |-> selected]
  /\ calls' = <<>>
  /\ UNCHANGED <<enableRange, props, isOpen, rangeStart, firstClick>>
  /\ UNCHANGED <<inputVars, buttonVars, modalVars>>

\* The host re-renders with the enableRange prop flipped; no state cell and
\* no effect depends on it
EnableRangeChange ==
  /\ enableRange' = ~enableRange
  /\ event' = [kind |-> "enableRangeProp"]
  /\ calls' = <<>>
  /\ UNCHANGED <<props, selectedDate, currentMonth, isOpen, rangeStart,
                 firstClick>>
  /\ UNCHANGED <<inputVars, buttonVars, modalVars>>

----------------------------------------------------------------------------
(* The Input component: validateInput and the handlers that call it.        *)
(* A value of the input element is modelled by what validation looks at:    *)
(* its length, whether VALIDATION_PATTERNS[validationType] matches it, and  *)
(* what the customValidation function returns for it.                       *)

Undefined == "undefined"

\* VALIDATION_MESSAGES.required, .minLength(n), .maxLength(n) and
\* [validationType]; the string a customValidation function returns
RequiredMessage == "This field is required"
MinLengthMessage(min) == "Minimum " \o ToString(min) \o " characters required"
MaxLengthMessage(max) == "Maximum " \o ToString(max) \o " characters allowed"
PatternMessage(type) ==
  CASE type = "email" -> "Please enter a valid email address"
    [] type = "numeric" -> "Please enter numbers only"
CustomMessage == "custom error"

\* validateInput with the pattern tested before the two length rules
validateInput_PatternFirst(value) ==
  IF required /\ value.length = 0
    THEN [isValid |-> FALSE, message |-> RequiredMessage]
  ELSE IF validationType # Undefined /\ value.length # 0 /\ ~value.matches
    THEN [isValid |-> FALSE, message |-> PatternMessage(validationType)]
  ELSE IF minLength # 0 /\ value.length < minLength
    THEN [isValid |-> FALSE, message |-> MinLengthMessage(minLength)]
  ELSE IF maxLength # 0 /\ value.length > maxLength
    THEN [isValid |-> FALSE, message |-> MaxLengthMessage(maxLength)]
  ELSE IF customValidation # Undefined /\ value.customError # Undefined
    THEN [isValid |-> FALSE, message |-> value.customError]
  ELSE [isValid |-> TRUE, message |-> Undefined]

\* validateInput: "!value" is an empty string, "minLength &&" and
\* "maxLength &&" a bound that is neither absent nor 0
validateInput(value) ==
  IF required /\ value.length = 0
    THEN [isValid |-> FALSE, message |-> RequiredMessage]
  ELSE IF minLength # 0 /\ value.length < minLength
    THEN [isValid |-> FALSE, message |-> MinLengthMessage(minLength)]
  ELSE IF maxLength # 0 /\ value.length > maxLength
    THEN [isValid |-> FALSE, message |-> MaxLengthMessage(maxLength)]
  ELSE IF validationType # Undefined /\ value.length # 0 /\ ~value.matches
    THEN [isValid |-> FALSE, message |-> PatternMessage(validationType)]
  ELSE IF customValidation # Undefined /\ value.customError # Undefined
    THEN [isValid |-> FALSE, message |-> value.customError]
  ELSE [isValid |-> TRUE, message |-> Undefined]

\* NextInternalError that keeps an earlier message when the value passes
NextInternalError_Sticky(value) ==
  IF validateInput(value).isValid
    THEN internalError
    ELSE validateInput(value).message

\* the argument of setInternalError: isValid ? undefined : message
NextInternalError(value) ==
  IF validateInput(value).isValid
    THEN Undefined
    ELSE validateInput(value).message

\* the aria-invalid attribute: !!(error || internalError)
ariaInvalid == error # Undefined \/ internalError # Undefined

\* the text under the input: error || internalError (helperText aside)
inputMessage == IF error # Undefined THEN error ELSE internalError

\* a change event carrying newValue
handleChange(newValue) ==
  /\ ~isLoading
  /\ internalError' = NextInternalError(newValue)
  /\ internalValue' = newValue
  /\ inputEvent' = [kind |-> "change", value |-> newValue,
                    invalidBefore |-> ariaInvalid]
  /\ UNCHANGED <<inputProps, isFocused>>
  /\ UNCHANGED <<calendarVars, buttonVars, modalVars>>

\* a blur event; e.target.value is the value on display
handleBlur ==
  /\ ~isLoading
  /\ isFocused
  /\ internalError' = NextInternalError(internalValue)
  /\ isFocused' = FALSE
  /\ inputEvent' = [kind |-> "blur", value |-> internalValue,
                    invalidBefore |-> ariaInvalid]
  /\ UNCHANGED <<inputProps, internalValue>>
  /\ UNCHANGED <<calendarVars, buttonVars, modalVars>>

handleFocus ==
  /\ ~isLoading
  /\ ~isFocused
  /\ isFocused' = TRUE
  /\ inputEvent' = [kind |-> "focus"]
  /\ UNCHANGED <<inputProps, internalError, internalValue>>
  /\ UNCHANGED <<calendarVars, buttonVars, modalVars>>

\* the longest value the modelled user enters
MaxLen == 4

\* the values of the input element; no pattern matches the empty string
InputValues ==
  { v \in [length : 0..MaxLen, matches : BOOLEAN,
            customError : {Undefined, CustomMessage}] :
      v.length = 0 => ~v.matches }

EmptyValue == [length |-> 0, matches |-> FALSE, customError |-> Undefined]

\* useState initialisers of an uncontrolled Input
InputMount ==
  /\ internalError = Undefined
  /\ internalValue \in {v \in InputValues : v.length = 0}
  /\ isFocused = FALSE
  /\ inputEvent = [kind |-> "mount"]

\* an Input with the default props, as the calendar models hold it
InputDefaults ==
  /\ required = FALSE
  /\ minLength = 0
  /\ maxLength = 0
  /\ validationType = Undefined
  /\ customValidation = Undefined
  /\ error = Undefined
  /\ isLoading = FALSE
  /\ internalError = Undefined
  /\ internalValue = EmptyValue
  /\ isFocused = FALSE
  /\ inputEvent = [kind |-> "mount"]

----------------------------------------------------------------------------
(* The Button component.  The props other than className, variant, size,   *)
(* isLoading and children are a set of <<name, value>> pairs that the       *)
(* component spreads onto the <button> element after its own attributes.    *)

\* the disabled attribute of <button disabled={isLoading} {...props}>: an
\* attribute of the spread props replaces the one written before it
ButtonDisabled(loading, rest) ==
  IF \E p \in rest : p[1] = "disabled"
    THEN \E p \in rest : p[1] = "disabled" /\ p[2]
    ELSE loading

\* A click on the button: a disabled <button> dispatches no click event
ButtonClick ==
  /\ buttonEvent' = [kind |-> "click"]
  /\ onClickCalls' =
       IF ButtonDisabled(buttonIsLoading, buttonRest) THEN 0 ELSE 1
  /\ UNCHANGED <<buttonIsLoading, buttonRest>>
  /\ UNCHANGED <<calendarVars, inputVars, modalVars>>

\* the disabled props a host passes: none, disabled, disabled={false}
ButtonRests == {{}, {<<"disabled", TRUE>>}, {<<"disabled", FALSE>>}}

\* The host re-renders the button with other props
ButtonRender(loading, rest) ==
  /\ <<loading, rest>> # <<buttonIsLoading, buttonRest>>
  /\ buttonIsLoading' = loading
  /\ buttonRest' = rest
  /\ buttonEvent' = [kind |-> "render"]
  /\ onClickCalls' = 0
  /\ UNCHANGED <<calendarVars, inputVars, modalVars>>

\* a Button with the default props
ButtonDefaults ==
  /\ buttonIsLoading = FALSE
  /\ buttonRest = {}
  /\ buttonEvent = [kind |-> "mount"]
  /\ onClickCalls = 0

----------------------------------------------------------------------------
(* The Modal component: Dialog.Root open={isOpen} with                      *)
(* onOpenChange={closeOnOutsideClick ? onClose : undefined}.  Dialog.Root   *)
(* calls onOpenChange with the requested open state whenever a trigger      *)
(* click, a close click or a dismissal asks for a state other than the one  *)
(* it has; without an isOpen prop it keeps the state itself.  The host of a *)
(* controlled modal passes onClose={() => setIsOpen(false)}.                *)

\* the number of times Dialog.Root invokes onClose when asked for a state
\* other than the one it has
OpenChangeCalls == IF closeOnOutsideClick THEN 1 ELSE 0

\* the open state after Dialog.Root was asked for the state open, onClose
\* having been invoked n times: a controlled modal is what its host makes it
OpenAfter(open, n) ==
  IF modalControlled
    THEN IF n > 0 THEN FALSE ELSE modalOpen
    ELSE open

\* A click on the trigger element (Dialog.Trigger toggles the open state;
\* an open modal dialog covers its trigger)
ModalTriggerClick ==
  /\ modalTrigger
  /\ ~modalOpen
  /\ onCloseCalls' = OpenChangeCalls
  /\ modalOpen' = OpenAfter(TRUE, OpenChangeCalls)
  /\ modalEvent' = [kind |-> "trigger", wasOpen |-> modalOpen]
  /\ UNCHANGED modalProps
  /\ UNCHANGED <<calendarVars, inputVars, buttonVars>>

\* the onClick calls of the close button: a Button with the default
\* isLoading and no disabled prop
CloseButtonClickCalls == IF ButtonDisabled(FALSE, {}) THEN 0 ELSE 1

\* A click on the close button: Dialog.Close asChild runs the button's own
\* onClick={onClose} and then asks Dialog.Root for the closed state
ModalCloseClick ==
  /\ showCloseButton
  /\ modalOpen
  /\ onCloseCalls' = CloseButtonClickCalls + OpenChangeCalls
  /\ modalOpen' = OpenAfter(FALSE, CloseButtonClickCalls + OpenChangeCalls)
  /\ modalEvent' = [kind |-> "close", wasOpen |-> modalOpen]
  /\ UNCHANGED modalProps
  /\ UNCHANGED <<calendarVars, inputVars, buttonVars>>

\* A click outside the content or the Escape key: Dialog.Content asks
\* Dialog.Root for the closed state
ModalDismiss ==
  /\ modalOpen
  /\ onCloseCalls' = OpenChangeCalls
  /\ modalOpen' = OpenAfter(FALSE, OpenChangeCalls)
  /\ modalEvent' = [kind |-> "dismiss", wasOpen |-> modalOpen]
  /\ UNCHANGED modalProps
  /\ UNCHANGED <<calendarVars, inputVars, buttonVars>>

\* The host of a controlled modal opens it: setIsOpen(true)
ModalHostOpen ==
  /\ modalControlled
  /\ ~modalOpen
  /\ modalOpen' = TRUE
  /\ onCloseCalls' = 0
  /\ modalEvent' = [kind |-> "hostOpen", wasOpen |-> modalOpen]
  /\ UNCHANGED modalProps
  /\ UNCHANGED <<calendarVars, inputVars, buttonVars>>

\* a closed Modal with the default props and no trigger
ModalDefaults ==
  /\ modalControlled = TRUE
  /\ modalOpen = FALSE
  /\ closeOnOutsideClick = TRUE
  /\ showCloseButton = TRUE
  /\ modalTrigger = FALSE
  /\ modalEvent = [kind |-> "mount", wasOpen |-> FALSE]
  /\ onCloseCalls = 0

----------------------------------------------------------------------------
(* The interaction model: a calendar of BaseYear's first months *)

Jan(d) == NewDate(BaseYear, 0, d)
Feb(d) == NewDate(BaseYear, 1, d)

\* an Invalid Date, as new Date("invalid") gives
InvalidDate == DateV(NaN)

\* values of the selected prop: absent, a date, a range, a range whose ends
\* are swapped, an Invalid Date, a range whose ends carry a time of day
SelectedValues ==
  {Null, DateV(Jan(15)), RangeV(Jan(15), Feb(20)), RangeV(Feb(20), Jan(15)),
   InvalidDate, RangeV(Jan(15) + 1, Jan(20) + 1)}

\* values of new Date() at mount
Todays == {Jan(15) + 1, Jan(31)}

MonthIndex(t) == getFullYear(t) * 12 + getMonth(t)

\* the months the interaction model navigates in
InWindow(t) ==
  \/ isNaN(t)
  \/ /\ MonthIndex(t) >= BaseYear * 12
     /\ MonthIndex(t) <= BaseYear * 12 + NavSpan

\* useState initialisers at mount
Mount(selected, today) ==
  /\ selectedDate = selected
  /\ currentMonth =
       IF IsDate(selected) THEN selected.t
       ELSE IF IsRange(selected) THEN selected.from
       ELSE today
  /\ isOpen = FALSE
  /\ rangeStart = Null
  /\ event = [kind |-> "mount", value |-> selected]
  /\ calls = <<>>
  /\ firstClick = Null

\* the date constraints the host passes: none; the tests' minDate with two
\* disabled days; bounds that carry a time of day
Constraints ==
  { [disabledDays |-> {}, minDate |-> Null, maxDate |-> Null],
    [disabledDays |-> {Feb(1), Feb(15) + 1}, minDate |-> DateV(Jan(15)),
     maxDate |-> Null],
    [disabledDays |-> {}, minDate |-> DateV(Jan(15) + 1),
     maxDate |-> DateV(Feb(15) + 1)] }

Init ==
  /\ enableRange \in BOOLEAN
  /\ disabled \in BOOLEAN
  /\ showOutsideDays \in BOOLEAN
  /\ fixedWeeks = FALSE
  /\ showTrigger \in BOOLEAN
  /\ showWeekNumbers = FALSE
  /\ \E c \in Constraints :
       /\ disabledDays = c.disabledDays
       /\ minDate = c.minDate
       /\ maxDate = c.maxDate
  /\ \E selected \in SelectedValues, today \in Todays : Mount(selected, today)
  /\ InputDefaults
  /\ ButtonDefaults
  /\ ModalDefaults

Next ==
  \/ CellClick
  \/ FillerClick
  \/ \E increment \in {-1, 1} : NavClick(increment) /\ InWindow(currentMonth')
  \/ TriggerClick
  \/ \E selected \in SelectedValues : SelectedPropChange(selected)
  \/ EnableRangeChange

Spec == Init /\ [][Next]_vars

----------------------------------------------------------------------------
(* The month model: a calendar mounted on any day of the covered years,    *)
(* with every combination of showOutsideDays and fixedWeeks, and navigated *)

\* the years covered: around BaseYear, and the century years
MonthYears ==
  ((BaseYear - YearSpan)..(BaseYear + YearSpan)) \cup {1900, 2000, 2100}

\* the days of the month on which the calendar is mounted
MountDays == {15, 29, 30, 31}

\* values of new Date() at mount: midnight or later in the day
MonthTodays ==
  UNION { { NewDate(ym[1], ym[2], d) + tick :
              d \in {x \in MountDays :
                       x <= getDate(NewDate(ym[1], ym[2] + 1, 0))},
              tick \in {0, 1} } :
          ym \in MonthYears \X (0..11) }

InitMonths ==
  /\ enableRange = FALSE
  /\ disabled = FALSE
  /\ showOutsideDays \in BOOLEAN
  /\ fixedWeeks \in BOOLEAN
  /\ showTrigger = FALSE
  /\ showWeekNumbers \in BOOLEAN
  /\ disabledDays = {}
  /\ minDate = Null
  /\ maxDate = Null
  /\ \E today \in MonthTodays : Mount(Null, today)
  /\ InputDefaults
  /\ ButtonDefaults
  /\ ModalDefaults

NextMonths ==
  \E increment \in {-1, 1} :
    /\ NavClick(increment)
    /\ getFullYear(currentMonth') \in MonthYears

SpecMonths == InitMonths /\ [][NextMonths]_vars

\* a calendar with the default props, as the other models hold it
CalendarDefaults ==
  /\ enableRange = FALSE
  /\ disabled = FALSE
  /\ showOutsideDays = FALSE
  /\ fixedWeeks = FALSE
  /\ showTrigger = TRUE
  /\ showWeekNumbers = FALSE
  /\ disabledDays = {}
  /\ minDate = Null
  /\ maxDate = Null
  /\ Mount(Null, Jan(15))

----------------------------------------------------------------------------
(* The input model: an uncontrolled Input with every combination of the    *)
(* validation props, edited, focused and blurred; the calendar is left as   *)
(* mounted                                                                  *)

\* the length bounds the host passes: none (or 0), a bound
MinLengths == {0, 2}
MaxLengths == {0, 3}

InitInput ==
  /\ required \in BOOLEAN
  /\ minLength \in MinLengths
  /\ maxLength \in MaxLengths
  /\ validationType \in {Undefined, "email", "numeric"}
  /\ customValidation \in {Undefined, "given"}
  /\ error \in {Undefined, "Error"}
  /\ isLoading \in BOOLEAN
  /\ InputMount
  /\ CalendarDefaults
  /\ ButtonDefaults
  /\ ModalDefaults

NextInput ==
  \/ \E newValue \in InputValues : handleChange(newValue)
  \/ handleBlur
  \/ handleFocus

SpecInput == InitInput /\ [][NextInput]_vars

----------------------------------------------------------------------------
(* The button and modal model: a Button re-rendered with every combination *)
(* of isLoading and a passed disabled prop and clicked; a Modal, controlled *)
(* or not, opened, closed and dismissed; the calendar and the input are     *)
(* left as mounted                                                          *)

InitWidgets ==
  /\ buttonIsLoading \in BOOLEAN
  /\ buttonRest \in ButtonRests
  /\ buttonEvent = [kind |-> "mount"]
  /\ onClickCalls = 0
  /\ modalControlled \in BOOLEAN
  /\ modalOpen = FALSE
  /\ closeOnOutsideClick \in BOOLEAN
  /\ showCloseButton \in BOOLEAN
  /\ modalTrigger \in BOOLEAN
  /\ modalEvent = [kind |-> "mount", wasOpen |-> FALSE]
  /\ onCloseCalls = 0
  /\ CalendarDefaults
  /\ InputDefaults

NextWidgets ==
  \/ ButtonClick
  \/ \E loading \in BOOLEAN, rest \in ButtonRests : ButtonRender(loading, rest)
  \/ ModalTriggerClick
  \/ ModalCloseClick
  \/ ModalDismiss
  \/ ModalHostOpen

SpecWidgets == InitWidgets /\ [][NextWidgets]_vars

----------------------------------------------------------------------------
(* Reference notions the properties are stated with *)

Min(a, b) == IF a <= b THEN a ELSE b
Max(a, b) == IF a <= b THEN b ELSE a

\* the last event was a click that reached handleDateClick
EnabledClick(e) == e.kind = "cellClick" /\ ~e.cellDisabled

\* a date the host's constraints rule out
RuledOut(date) ==
  \/ date \in disabledDays
  \/ (minDate # Null /\ date < minDate.t)
  \/ (maxDate # Null /\ date > maxDate.t)

\* the validation rules in the order in which they are required to apply
Rules == <<"required", "minLength", "maxLength", "pattern", "custom">>

\* value v fails the rule: an empty value fails "required" when the field is
\* required; a length bound is a positive minLength or maxLength; the
\* pattern of validationType is asked of non-empty values only; the custom
\* validator fails a value by returning a message for it
FailsRule(rule, v) ==
  CASE rule = "required" -> required /\ v.length = 0
    [] rule = "minLength" -> minLength > 0 /\ v.length < minLength
    [] rule = "maxLength" -> maxLength > 0 /\ v.length > maxLength
    [] rule = "pattern" ->
         validationType # Undefined /\ v.length > 0 /\ ~v.matches
    [] rule = "custom" ->
         customValidation # Undefined /\ v.customError # Undefined

\* the message of a rule that v fails
RuleMessage(rule, v) ==
  CASE rule = "required" -> RequiredMessage
    [] rule = "minLength" -> MinLengthMessage(minLength)
    [] rule = "maxLength" -> MaxLengthMessage(maxLength)
    [] rule = "pattern" -> PatternMessage(validationType)
    [] rule = "custom" -> v.customError

FailedRules(v) == {i \in DOMAIN Rules : FailsRule(Rules[i], v)}

\* the number of days of month m (0..11) of year y, by the calendar rules
CalendarDays(y, m) ==
  IF m = 1
    THEN IF (y % 4 = 0 /\ y % 100 # 0) \/ y % 400 = 0 THEN 29 ELSE 28
    ELSE IF m \in {3, 5, 8, 10} THEN 30 ELSE 31

----------------------------------------------------------------------------
(* Range selection *)

\* C1: in range mode, an enabled click on d while a start is pending selects
\* the range from min(start, d) to max(start, d) and clears the pending start.
C1_CompleteRange ==
  [][ (enableRange /\ rangeStart # Null /\ EnabledClick(event'))
        => /\ selectedDate' = RangeV(Min(rangeStart.t, event'.date),
                                     Max(rangeStart.t, event'.date))
           /\ rangeStart' = Null ]_vars

\* a range was just completed by a click on a day before its pending start
C1_Witness ==
  /\ enableRange
  /\ EnabledClick(event)
  /\ rangeStart = Null
  /\ IsRange(selectedDate)
  /\ selectedDate.from = event.date
  /\ selectedDate.from < selectedDate.to

\* C2: in range mode, an enabled click on d with no pending start selects the
\* one-day range from d to d and makes d the pending start.
C2_StartRange ==
  [][ (enableRange /\ rangeStart = Null /\ EnabledClick(event'))
        => /\ selectedDate' = RangeV(event'.date, event'.date)
           /\ rangeStart' = DateV(event'.date) ]_vars

\* a range was just opened by a click, replacing an earlier completed range
C2_Witness ==
  /\ enableRange
  /\ EnabledClick(event)
  /\ rangeStart = DateV(event.date)
  /\ selectedDate = RangeV(event.date, event.date)
  /\ firstClick = DateV(event.date)

\* C3: in range mode, when an enabled click on A from an idle tracker is
\* followed by an enabled click on B, the selection is the range from
\* min(A, B) to max(A, B), which is the same for both orders of A and B.
C3_OrderIndependent ==
  [][ (firstClick # Null /\ enableRange /\ EnabledClick(event'))
        => selectedDate' = RangeV(Min(firstClick.t, event'.date),
                                  Max(firstClick.t, event'.date)) ]_vars

\* the later day was clicked first and the earlier day, of another month,
\* second
C3_Witness ==
  /\ enableRange
  /\ EnabledClick(event)
  /\ firstClick = Null
  /\ IsRange(selectedDate)
  /\ event.date = selectedDate.from
  /\ getMonth(selectedDate.from) # getMonth(selectedDate.to)

----------------------------------------------------------------------------
(* Clicks and callbacks *)

\* C4: a click on the cell of a date that is in disabledDays, before minDate
\* or after maxDate changes neither the selection nor the range tracker and
\* invokes no callback.
C4_DisabledClickNoOp ==
  [][ (event'.kind = "cellClick" /\ RuledOut(event'.date))
        => /\ UNCHANGED <<selectedDate, rangeStart, currentMonth, isOpen>>
           /\ calls' = <<>> ]_vars

\* a ruled-out day was clicked while a range start was pending
C4_Witness ==
  /\ event.kind = "cellClick"
  /\ RuledOut(event.date)
  /\ rangeStart # Null
  /\ calls = <<>>

\* C5: an enabled click invokes onSelect once with the resulting selection and
\* then onDayClick once with the clicked date, and nothing else.
C5_CallbackOrder ==
  [][ EnabledClick(event')
        => calls' = << [cb |-> "onSelect", arg |-> selectedDate'],
                       [cb |-> "onDayClick", arg |-> DateV(event'.date)] >>
     ]_vars

\* a click completed a range of more than one day and both callbacks ran
C5_Witness ==
  /\ EnabledClick(event)
  /\ Len(calls) = 2
  /\ IsRange(selectedDate)
  /\ selectedDate.from < selectedDate.to
  /\ calls[1].arg = selectedDate

\* C6: whenever enableRange changes value the range tracker is idle
\* afterwards.
C6_ModeSwitchResets ==
  [][ enableRange' # enableRange => rangeStart' = Null ]_vars

----------------------------------------------------------------------------
(* Month navigation *)

\* C7: a navigation click by +1 or -1 makes the visible month the calendar
\* month right after or before the one on display, and onMonthChange receives
\* the new visible month.
C7_NavByOneMonth ==
  [][ event'.kind = "nav"
        => /\ MonthIndex(currentMonth')
                = MonthIndex(currentMonth) + event'.inc
           /\ calls' = << [cb |-> "onMonthChange",
                           arg |-> DateV(currentMonth')] >> ]_vars

\* C8: a navigation click that undoes the direction of the navigation click
\* before it returns to the year and month that were on display before both.
C8_NavRoundTrip ==
  [][ (event.kind = "nav" /\ event'.kind = "nav"
         /\ event'.inc = -event.inc)
        => MonthIndex(currentMonth') = MonthIndex(event.from) ]_vars

----------------------------------------------------------------------------
(* The grid *)

\* C9: the grid holds exactly as many current-month cells as the visible
\* month has days, labelled 1, 2, ... in order, each for that day of the
\* visible month.
C9_DayCellCount ==
  \A grid \in {renderCalendarGrid}, y \in {viewYear}, m \in {viewMonth} :
    \A days \in {{k \in DOMAIN grid : grid[k].kind = "day"}} :
      /\ Cardinality(days) = CalendarDays(y, m)
      /\ \A k \in days :
           \A cell \in {grid[k]} :
             /\ cell.label = 1 + Cardinality({j \in days : j < k})
             /\ getDate(cell.date) = cell.label
             /\ getMonth(cell.date) = m
             /\ getFullYear(cell.date) = y

\* February of a leap century year, reached by navigation, shows 29 cells
C9_Witness ==
  /\ event.kind = "nav"
  /\ viewYear = 2000
  /\ viewMonth = 1
  /\ Len(CurrentMonthCells) = 29

\* C10: the cell of day d of the visible month lies in grid column
\* (firstWeekdayOffset + d - 1) mod 7, the column of its weekday, whether or
\* not outside days are shown.
C10_WeekdayColumn ==
  \A grid \in {renderCalendarGrid}, offset \in {firstDayOfMonth} :
    \A k \in DOMAIN grid :
      grid[k].kind = "day"
        => /\ GridColumn(k) = (offset + grid[k].label - 1) % 7
           /\ GridColumn(k) = getDay(grid[k].date)

\* C11: with fixedWeeks the grid has 42 cells whatever the month; without
\* it the number of cells is the smallest multiple of 7 that is at least
\* firstWeekdayOffset + daysInMonth.
C11_TotalCells ==
  \A total \in {totalCells}, used \in {firstDayOfMonth + daysInMonth} :
    /\ fixedWeeks => total = 42
    /\ ~fixedWeeks =>
         /\ total % 7 = 0
         /\ total >= used
         /\ \A n \in 0..(total - 1) : ~(n % 7 = 0 /\ n >= used)

\* a month that fills five rows exactly (31 days from a Thursday) has 35
\* cells without fixedWeeks and 42 with it
C11_Witness ==
  /\ firstDayOfMonth + daysInMonth = 35
  /\ \/ ~fixedWeeks /\ totalCells = 35
     \/ fixedWeeks /\ totalCells = 42
  /\ event.kind = "nav"

\* C12: with showOutsideDays the grid starts with firstWeekdayOffset filler
\* cells and ends with totalCells - firstWeekdayOffset - daysInMonth filler
\* cells, a number that is never negative, so that totalCells cells are
\* emitted; February 2024 without fixedWeeks has 4 leading, 29 current-month
\* and 2 trailing cells.
C12_FillerCounts ==
  showOutsideDays =>
    \A grid \in {renderCalendarGrid}, offset \in {firstDayOfMonth},
       days \in {daysInMonth}, total \in {totalCells} :
      \A lead \in {Cardinality({k \in DOMAIN grid : grid[k].kind = "prev"})},
         trail \in {Cardinality({k \in DOMAIN grid : grid[k].kind = "next"})} :
        /\ lead = offset
        /\ total - offset - days >= 0
        /\ trail = total - offset - days
        /\ Len(grid) = total
        /\ \A k \in DOMAIN grid :
             /\ grid[k].kind = "prev" <=> k <= offset
             /\ grid[k].kind = "next" <=> k > offset + days
        /\ (viewYear = 2024 /\ viewMonth = 1 /\ ~fixedWeeks)
             => lead = 4 /\ Len(grid) - lead - trail = 29 /\ trail = 2

\* February 2024 shown with outside days and without fixedWeeks
C12_Witness ==
  /\ showOutsideDays
  /\ ~fixedWeeks
  /\ viewYear = 2024
  /\ viewMonth = 1
  /\ Len(PrevMonthCells) = 4
  /\ Len(NextMonthCells) = 2
  /\ Len(renderCalendarGrid) = 35

----------------------------------------------------------------------------
(* The selection and the visible month *)

\* C14: in every reachable state whose selection is a range, whatever day
\* clicks, month navigation and selected-prop updates led to it, the range
\* has from <= to.
C14_RangeOrdered ==
  IsRange(selectedDate) => selectedDate.from <= selectedDate.to

\* C15: in every reachable state the selection has the shape of the mode: a
\* range or absent when enableRange is true, a single date or absent when it
\* is false.
C15_ShapeMatchesMode ==
  /\ enableRange => (selectedDate = Null \/ IsRange(selectedDate))
  /\ ~enableRange => (selectedDate = Null \/ IsDate(selectedDate))

\* C16: the visible month changes only through a navigation click, which
\* moves it by one month, or through the synchronisation with a changed
\* selected prop; a day click, opening or closing the popover and a
\* re-render leave it as it is.
C16_MonthChangesOnlyByNavOrSync ==
  [][ currentMonth' # currentMonth
        => \/ /\ event'.kind = "nav"
              /\ isNaN(currentMonth) = isNaN(currentMonth')
              /\ ~isNaN(currentMonth)
                   => MonthIndex(currentMonth')
                        = MonthIndex(currentMonth) + event'.inc
           \/ event'.kind = "selectedProp" ]_vars

\* C17: an invalid selected date supplied by the host (its time value NaN)
\* is treated as absent: the trigger shows the placeholder and the visible
\* month is that of a valid date, with a grid of 28 to 31 day cells.
C17_InvalidSelectedIsAbsent ==
  (event.kind \in {"mount", "selectedProp"} /\ event.value = InvalidDate)
    => /\ TriggerLabel = Placeholder
       /\ ~isNaN(currentMonth)
       /\ Len(CurrentMonthCells) \in 28..31

\* C18: when the selected prop changes to a defined value, the internal
\* selection becomes that value and the visible month becomes the month of
\* that date, of its from for a range, whatever was selected or navigated to
\* before.
C18_SelectedPropSync ==
  [][ (event'.kind = "selectedProp" /\ event'.value # Null)
        => \A v \in {event'.value} :
             \A anchor \in {IF IsDate(v) THEN v.t ELSE v.from} :
               /\ selectedDate' = v
               /\ isNaN(currentMonth') = isNaN(anchor)
               /\ ~isNaN(anchor)
                    => MonthIndex(currentMonth') = MonthIndex(anchor) ]_vars

\* the prop changed to a range while a start clicked in another month was
\* pending: the range is the selection and its from month is on display
C18_Witness ==
  /\ event.kind = "selectedProp"
  /\ event.value = RangeV(Jan(15), Feb(20))
  /\ rangeStart # Null
  /\ getMonth(rangeStart.t) = 1
  /\ selectedDate = event.value
  /\ viewMonth = 0

----------------------------------------------------------------------------
(* Input validation *)

\* C19: validation reports exactly one error, the message of the first rule
\* the value fails in the order required, minLength, maxLength, pattern,
\* custom validator, however many rules it fails; a value that fails no rule
\* is valid and has no message.  The handlers store that one message.
C19_FirstFailingRule ==
  /\ \A v \in InputValues :
       \A failed \in {FailedRules(v)}, result \in {validateInput(v)} :
         IF failed = {}
           THEN result.isValid /\ result.message = Undefined
           ELSE /\ ~result.isValid
                /\ \E i \in failed :
                     /\ \A j \in failed : i <= j
                     /\ result.message = RuleMessage(Rules[i], v)
  /\ inputEvent.kind \in {"change", "blur"}
       => internalError = validateInput(inputEvent.value).message

\* a one-character value that fails minLength, the pattern and the custom
\* validator at once is reported as too short
C19_Witness ==
  /\ inputEvent.kind = "change"
  /\ Cardinality(FailedRules(inputEvent.value)) = 3
  /\ FailsRule("pattern", inputEvent.value)
  /\ FailsRule("custom", inputEvent.value)
  /\ error = Undefined
  /\ inputMessage = MinLengthMessage(2)

\* C20: with no error prop, after every change or blur event the input is
\* marked invalid (aria-invalid true) if and only if the value the event
\* carries fails validation; so an input marked invalid is valid again as
\* soon as a passing value is entered, whatever edits came before.
C20_InvalidIffValueFails ==
  [][ (inputEvent'.kind \in {"change", "blur"} /\ error = Undefined)
        => (ariaInvalid' <=> FailedRules(inputEvent'.value) # {}) ]_vars

\* an input marked invalid during typing is edited to a value that matches
\* the pattern and is valid again
C20_Witness ==
  /\ error = Undefined
  /\ validationType = "email"
  /\ inputEvent.kind = "change"
  /\ inputEvent.invalidBefore
  /\ inputEvent.value.matches
  /\ FailedRules(inputEvent.value) = {}
  /\ ~ariaInvalid

----------------------------------------------------------------------------
(* Button and Modal *)

\* C21: whenever isLoading is true the rendered button is disabled and a
\* click on it invokes no onClick, whatever other props are passed, a
\* disabled prop included.
C21_LoadingButtonDisabled ==
  buttonIsLoading
    => /\ ButtonDisabled(buttonIsLoading, buttonRest)
       /\ buttonEvent.kind = "click" => onClickCalls = 0

\* C22: onClose is invoked only by an event that takes the modal from open
\* to closed, never by one that opens it such as a click on its trigger,
\* and at most once by one event.
C22_OnCloseOnlyOnClose ==
  /\ onCloseCalls <= 1
  /\ onCloseCalls > 0
       => /\ modalEvent.kind \in {"close", "dismiss"}
          /\ modalEvent.wasOpen
          /\ ~modalOpen
  /\ modalEvent.kind = "trigger" => onCloseCalls = 0

----------------------------------------------------------------------------
(* Selection state of the cells *)

\* C23: a cell of the visible month is marked selected exactly when the
\* selection is a single date that is the cell's calendar day; with a range
\* selected, or nothing, no cell is marked selected.
C23_SelectedIffSingleDate ==
  CalendarVisible =>
    \A cells \in {CurrentMonthCells} :
      \A k \in DOMAIN cells :
        cells[k].isSelected
          <=> /\ IsDate(selectedDate)
              /\ ~isNaN(selectedDate.t)
              /\ Day(selectedDate.t) = Day(cells[k].date)

\* C24: with a range selected, a cell of the visible month is in range iff
\* from <= date <= to, is the range start iff its date is from and the
\* range end iff its date is to, all by calendar day, so that an end with a
\* time of day matches the cell of its day; with any other selection the
\* three flags are false.
C24_RangeFlagsByDay ==
  CalendarVisible =>
    \A cells \in {CurrentMonthCells} :
      \A k \in DOMAIN cells :
        \A cell \in {cells[k]} :
          IF IsRange(selectedDate)
            THEN /\ cell.isInRange
                      <=> /\ Day(selectedDate.from) <= Day(cell.date)
                          /\ Day(cell.date) <= Day(selectedDate.to)
                 /\ cell.isStart <=> Day(cell.date) = Day(selectedDate.from)
                 /\ cell.isEnd <=> Day(cell.date) = Day(selectedDate.to)
            ELSE ~cell.isInRange /\ ~cell.isStart /\ ~cell.isEnd

\* the filler buttons are there only with showOutsideDays, and each is
\* disabled and carries no selected, in-range, start or end state
FillersInert ==
  \A fillers \in {PrevMonthCells \o NextMonthCells} :
    \A k \in DOMAIN fillers :
      \A cell \in {fillers[k]} :
        /\ showOutsideDays
        /\ cell.disabled
        /\ ~cell.isSelected /\ ~cell.isInRange
        /\ ~cell.isStart /\ ~cell.isEnd

\* C25: filler cells, the days of the previous and of the next month, are
\* emitted only when showOutsideDays is true, are always disabled, never
\* carry selected or in-range state even when the selection covers their
\* date, and a click on one changes nothing and invokes no callback.
C25_FillersInert ==
  /\ []FillersInert
  /\ [][ (event'.kind = "cellClick" /\ event'.cell # "day")
           => /\ calls' = <<>>
              /\ UNCHANGED <<selectedDate, rangeStart, currentMonth, isOpen,
                             enableRange>> ]_vars

\* January with the range January 15 - February 20 selected: the filler of
\* February 1 lies in the range, and was clicked
C25_Witness ==
  /\ showOutsideDays
  /\ enableRange
  /\ selectedDate = RangeV(Jan(15), Feb(20))
  /\ viewMonth = 0
  /\ event.kind = "cellClick"
  /\ event.cell = "next"
  /\ event.date = Feb(1)
  /\ isDateInRange(event.date)
  /\ ~NextMonthCell(1).isInRange

\* C26: minDate and maxDate are inclusive by calendar day: the cell of
\* minDate's day and the cell of maxDate's day are not disabled by the bound
\* and can be selected, whatever time of day the bound carries.
C26_BoundsInclusiveByDay ==
  (CalendarVisible /\ ~disabled) =>
    \A cells \in {CurrentMonthCells} :
      \A k \in DOMAIN cells :
        \A date \in {cells[k].date} :
          ( /\ date \notin disabledDays
            /\ minDate # Null => Day(date) >= Day(minDate.t)
            /\ maxDate # Null => Day(date) <= Day(maxDate.t) )
            => ~cells[k].disabled

----------------------------------------------------------------------------
(* Week numbers and the order of the cells *)

\* the first date of grid row w (1, 2, ...): the Sunday of the week in
\* which days of the visible month fall for the w-th time
RowFirstDate(w) == NewDate(viewYear, viewMonth, 7 * (w - 1) + 1 - firstDayOfMonth)

\* C27: with showWeekNumbers there is one week number per grid row, and it
\* is the week-number formula applied to the first date of the row, its
\* Sunday, also when that date lies in the previous month or year: for
\* every month and row, the first row of January and the rows fixedWeeks
\* adds included.
C27_WeekNumberOfRowStart ==
  showWeekNumbers =>
    \A numbers \in {WeekNumbers} :
      /\ Len(numbers) * 7 = totalCells
      /\ \A w \in DOMAIN numbers :
           numbers[w] = getWeekNumber(RowFirstDate(w))

\* C28: with showOutsideDays the cells in grid order are consecutive
\* calendar days in ascending order: the last firstWeekdayOffset days of the
\* previous month, ending on the day before the 1st, then the days of the
\* month, then days 1, 2, ... of the next month.
C28_CellsAscending ==
  showOutsideDays =>
    \A grid \in {renderCalendarGrid}, offset \in {firstDayOfMonth} :
      /\ \A k \in DOMAIN grid :
           /\ k <= offset => grid[k].kind = "prev"
           /\ k < Len(grid) => Day(grid[k + 1].date) = Day(grid[k].date) + 1
      /\ offset < Len(grid) => getDate(grid[offset + 1].date) = 1

----------------------------------------------------------------------------
(* The range tracker and the disabled calendar *)

\* C29: in every reachable state in which the range tracker holds a pending
\* start s, the calendar is in range mode and the selection is the range
\* from s to s, whatever day clicks, navigation, selected-prop updates and
\* mode switches led there.
C29_PendingStartIsSelection ==
  rangeStart # Null
    => /\ enableRange
       /\ selectedDate = RangeV(rangeStart.t, rangeStart.t)

\* C30: while the disabled prop is true, no click of the user on the
\* calendar, on a day, on a navigation button or on the trigger, changes
\* the selection, the range tracker, the visible month or the popover's
\* open state, or invokes onSelect, onDayClick or onMonthChange, be the
\* calendar behind the trigger or inline.
C30_DisabledCalendarInert ==
  [][ (disabled /\ event'.kind \in {"cellClick", "nav", "trigger"})
        => /\ UNCHANGED <<selectedDate, rangeStart, currentMonth, isOpen>>
           /\ calls' = <<>> ]_vars

====
